---- MODULE Spec2Model ----
(***************************************************************************)
(* Connection registry and broadcast routing of the PayTap WebSocket       *)
(* server (src/server.js).                                                 *)
(*                                                                         *)
(* Node runs every handler to completion on one thread, so each handler    *)
(* (connection, message, close, error, pong, the two interval callbacks,   *)
(* the payment timer, shutdown) is one atomic action.  The `ws` library    *)
(* is the transport: its behaviour (wss.clients bookkeeping, readyState,   *)
(* send/close/terminate) is modelled at the places server.js relies on it. *)
(***************************************************************************)
EXTENDS Integers, Sequences, FiniteSets, TLC

\* ------------------------------------------------------------- bounds
MaxConns == 3        \* connection handles that may be live at once
TimedConns == 2      \* handles used by the specifications in which time passes
MaxTime == 2         \* clock steps the model lets pass
MaxPending == 1      \* payment timers that may be pending at once

\* --------------------------------------------------- program constants
StaleMs == 120000    \* eviction threshold on now - lastPing

Conn == 1..MaxConns
TimedConn == 1..TimedConns
DevIds == {"D1", "D2"}
Undefined == "undefined"      \* a field the JSON object does not carry
Null == "null"                \* JSON null / device_id: null

VARIABLES
  wssClients,   \* wss.clients: the listener's set of live sockets
  clients,      \* the `clients` Map: socket -> metadata record
  sock,         \* per handle: the socket's condition (see ReadyState)
  now,          \* Date.now()
  pending,      \* payment timers set and not yet fired
  phase,        \* "running", "stopping" (shutdown() called), "exited"
  observe,      \* whether handler runs are recorded in `last` (fixed by Init)
  last          \* observation of the last handler run: what it was and
                \* what it handed to the transport

vars == <<wssClients, clients, sock, now, pending, phase, observe, last>>

\* ------------------------------------------------------------ the socket
\* sock[c]: "NONE" (no socket / closed), "OPEN", "BROKEN" (the peer or the
\* path is gone but Node has not reported it yet: readyState is still OPEN),
\* "CLOSING" (close() called or close frame received, handshake pending),
\* "DESTROYED" (terminate() or a transport error destroyed the socket; the
\* 'close' event has not been emitted yet).
ReadyState(s) ==
  CASE s \in {"OPEN", "BROKEN"} -> 1
    [] s \in {"CLOSING", "DESTROYED"} -> 2
    [] OTHER -> 3

NoSends == [c \in Conn |-> <<>>]

\* ws.send(data) with no callback: data goes to the transport when the socket
\* is OPEN and is dropped silently when it is CLOSING or CLOSED.
WsSend(out, c, ev, sk) ==
  IF ReadyState(sk[c]) = 1 THEN [out EXCEPT ![c] = Append(@, ev)] ELSE out

\* Whether client.send() throws synchronously.  On an OPEN socket it never
\* does: a write to a dead peer fails later, as an 'error' event.
\* (Faulty variant: a send to a dead peer throws.)
SendThrowsOnBroken(c, sk) == sk[c] = "BROKEN"
SendThrows(c, sk) == FALSE

\* --------------------------------------------------------------- events
WelcomeEv == [type |-> "welcome"]
ConfirmedEv == [type |-> "connection_confirmed"]
StatusEv(status, dev) == [type |-> "esp32_status", status |-> status, device_id |-> dev]
ScanEv(dev) == [type |-> "rfid_scan", device_id |-> dev]
ScanReceivedEv == [type |-> "scan_received"]
PaymentSuccessEv == [type |-> "payment_success"]
PaymentFailedEv == [type |-> "payment_failed"]
PongEv == [type |-> "pong"]
ErrorEv == [type |-> "error"]

\* ------------------------------------------------------------ broadcasts
\* The forEach loops of the three broadcast helpers.  wss.clients is walked
\* in handle order; `match` is the role filter.  acc = [out, count, threw, to]:
\* the sends so far, the helper's `count`, whether send() threw, and the
\* handles sent to, in order.
\* (Faulty variant: the loop without its readyState test.)
RECURSIVE BroadcastLoopAnyState(_, _, _, _, _, _)
BroadcastLoopAnyState(i, wss, match, sk, ev, acc) ==
  IF i > MaxConns \/ acc.threw THEN acc
  ELSE IF i \in wss /\ i \in match
       THEN BroadcastLoopAnyState(i + 1, wss, match, sk, ev,
              [acc EXCEPT !.out[i] = Append(@, ev), !.count = @ + 1,
                          !.to = Append(@, i)])
       ELSE BroadcastLoopAnyState(i + 1, wss, match, sk, ev, acc)

RECURSIVE BroadcastLoop(_, _, _, _, _, _)
BroadcastLoop(i, wss, match, sk, ev, acc) ==
  IF i > MaxConns \/ acc.threw THEN acc
  ELSE IF i \in wss /\ i \in match /\ ReadyState(sk[i]) = 1
       THEN IF SendThrows(i, sk)
            THEN [acc EXCEPT !.threw = TRUE]
            ELSE BroadcastLoop(i + 1, wss, match, sk, ev,
                   [acc EXCEPT !.out[i] = Append(@, ev), !.count = @ + 1,
                               !.to = Append(@, i)])
       ELSE BroadcastLoop(i + 1, wss, match, sk, ev, acc)

StartLoop(out) == [out |-> out, count |-> 0, threw |-> FALSE, to |-> <<>>]

\* (Faulty variant of broadcastToAll: the sender is not skipped.)
broadcastToAllEchoes(ev, sender, wss, sk, out) ==
  BroadcastLoop(1, wss, Conn, sk, ev, StartLoop(out))
broadcastToAll(ev, sender, wss, sk, out) ==
  BroadcastLoop(1, wss, Conn \ {sender}, sk, ev, StartLoop(out))

broadcastToESP32(ev, wss, cl, sk, out) ==
  BroadcastLoop(1, wss, {c \in DOMAIN cl : cl[c].type = "esp32"}, sk, ev, StartLoop(out))

\* (Faulty variant of broadcastToWeb: no role filter.)
broadcastToWebUnfiltered(ev, wss, cl, sk, out) ==
  BroadcastLoop(1, wss, DOMAIN cl, sk, ev, StartLoop(out))
broadcastToWeb(ev, wss, cl, sk, out) ==
  BroadcastLoop(1, wss, {c \in DOMAIN cl : cl[c].type = "web"}, sk, ev, StartLoop(out))

\* What a handler run records of one broadcast call.
Bcast(fn, sender, ev, r) ==
  [fn |-> fn, sender |-> sender, ev |-> ev, count |-> r.count, to |-> r.to]

\* ------------------------------------------------------------- payloads
\* An inbound payload: text that is not JSON, the JSON text `null`, or a
\* JSON object with an optional `type`, an optional `device_id` and possibly
\* fields the server never reads (`extra`).  (A JSON scalar such as 5 has no
\* field and behaves as the object {}.)
MsgTypes == {"esp32_connected", "web_connected", "rfid_scan", "payment_request",
             "ping", "custom", Undefined}
Payload(json, type, dev) ==
  [json |-> json, type |-> type, device_id |-> dev, extra |-> Undefined]
BadJson == Payload("invalid", Undefined, Undefined)
NullJson == Payload("null", Undefined, Undefined)

\* JSON.parse(data.toString()): throws (ok = FALSE), yields null, or yields the
\* object with every field of the text; the handler reads `type` and
\* `device_id`.
JSONParse(p) ==
  LET value == [type |-> p.type, device_id |-> p.device_id, extra |-> p.extra] IN
  CASE p.json = "invalid" -> [ok |-> FALSE, isNull |-> FALSE, value |-> value]
    [] p.json = "null" -> [ok |-> TRUE, isNull |-> TRUE, value |-> value]
    [] OTHER -> [ok |-> TRUE, isNull |-> FALSE, value |-> value]

\* `if (message.device_id)`: a present, non-empty id
Truthy(v) == v # Undefined /\ v # Null

\* ------------------------------------------------------ message handler
\* The role written by the switch: only the two announce cases assign it.
\* (Faulty variant: a role, once set, is kept.)
RoleAfterFirstWins(old, mtype) ==
  IF old # "unknown" THEN old
  ELSE CASE mtype = "esp32_connected" -> "esp32"
         [] mtype = "web_connected" -> "web"
         [] OTHER -> old
RoleAfter(old, mtype) ==
  CASE mtype = "esp32_connected" -> "esp32"
    [] mtype = "web_connected" -> "web"
    [] OTHER -> old

\* Lines 144-150: refresh lastPing, overwrite device_id when the message has one.
\* (Faulty variants: device_id never overwritten; the record rebuilt with
\* type 'unknown' on every message.)
UpdateMetadataKeepId(cl, c, m, t) ==
  IF c \in DOMAIN cl THEN [cl EXCEPT ![c].lastPing = t] ELSE cl
UpdateMetadataRecreate(cl, c, m, t) ==
  IF c \in DOMAIN cl
  THEN [cl EXCEPT ![c] = [type |-> "unknown", lastPing |-> t,
                          device_id |-> IF Truthy(m.device_id) THEN m.device_id
                                        ELSE cl[c].device_id]]
  ELSE cl
\* (Faulty variant: the timestamp is not refreshed.)
UpdateMetadataNoRefresh(cl, c, m, t) ==
  IF c \in DOMAIN cl
  THEN [cl EXCEPT ![c].device_id = IF Truthy(m.device_id) THEN m.device_id ELSE @]
  ELSE cl
UpdateMetadata(cl, c, m, t) ==
  IF c \in DOMAIN cl
  THEN [cl EXCEPT ![c].lastPing = t,
                  ![c].device_id = IF Truthy(m.device_id) THEN m.device_id ELSE @]
  ELSE cl

\* Lines 155 and 173: `if (clientData) clientData.type = ...`
SetRole(cl, c, mtype) ==
  IF c \in DOMAIN cl THEN [cl EXCEPT ![c].type = RoleAfter(@, mtype)] ELSE cl

\* The broadcast of the rfid_scan case, lines 188-194: broadcastToWeb, called
\* whatever the sender's role and with no socket to skip.
\* (Faulty variant: the sender is skipped.)
BroadcastScanToOthers(ev, c, wss, cl, sk) ==
  BroadcastLoop(1, wss, {d \in DOMAIN cl : cl[d].type = "web"} \ {c}, sk, ev,
                StartLoop(NoSends))
BroadcastScan(ev, c, wss, cl, sk) == broadcastToWeb(ev, wss, cl, sk, NoSends)

\* Result of the try block: new registry, sends, broadcasts made, whether a
\* payment timer was set, whether an exception left the block.
Handled(cl, out, bcasts, timer, threw) ==
  [cl |-> cl, out |-> out, bcasts |-> bcasts, timer |-> timer, threw |-> threw]

\* The switch on message.type, lines 153-249.
Dispatch(c, m, cl, wss, sk) ==
  CASE m.type = "esp32_connected" ->
         LET cl2 == SetRole(cl, c, m.type)
             o1 == WsSend(NoSends, c, ConfirmedEv, sk)
             b == broadcastToWeb(StatusEv("connected", m.device_id), wss, cl2, sk, o1)
         IN Handled(cl2, b.out, <<Bcast("web", 0, StatusEv("connected", m.device_id), b)>>,
                    FALSE, b.threw)
    [] m.type = "web_connected" ->
         Handled(SetRole(cl, c, m.type), WsSend(NoSends, c, ConfirmedEv, sk),
                 <<>>, FALSE, FALSE)
    [] m.type = "rfid_scan" ->
         LET b == BroadcastScan(ScanEv(m.device_id), c, wss, cl, sk)
         IN Handled(cl, IF b.threw THEN b.out ELSE WsSend(b.out, c, ScanReceivedEv, sk),
                    <<Bcast("web", 0, ScanEv(m.device_id), b)>>, FALSE, b.threw)
    [] m.type = "payment_request" ->
         Handled(cl, NoSends, <<>>, TRUE, FALSE)
    [] m.type = "ping" ->
         Handled(cl, WsSend(NoSends, c, PongEv, sk), <<>>, FALSE, FALSE)
    [] OTHER ->
         LET b == broadcastToAll(m, c, wss, sk, NoSends)
         IN Handled(cl, b.out, <<Bcast("all", c, m, b)>>, FALSE, b.threw)

\* (Faulty variant: the catch block only logs.)
CatchNoReply(out, c, sk) == out
\* The catch block, lines 251-258: one error event to the sender.
Catch(out, c, sk) == WsSend(out, c, ErrorEv, sk)

\* ws.on('message'), lines 136-259.
HandleMessage(c, p, cl, wss, sk, t) ==
  LET parsed == JSONParse(p) IN
  IF ~parsed.ok \/ parsed.isNull
  THEN \* JSON.parse throws (138), or message.type of null throws (140)
       Handled(cl, Catch(NoSends, c, sk), <<>>, FALSE, TRUE)
  ELSE LET r == Dispatch(c, parsed.value, UpdateMetadata(cl, c, parsed.value, t), wss, sk)
       IN IF r.threw THEN [r EXCEPT !.out = Catch(r.out, c, sk)] ELSE r

\* ----------------------------------------------------------- observation
NoPayload == Payload("none", Undefined, Undefined)
\* op: the handler; conn: its socket (0: none); was: the socket's condition
\* when the handler started; msg: the payload; sent: per handle, the events
\* handed to the transport, in order; bcasts: the broadcast calls made.
Observation(op, c, was, p, out, bcasts) ==
  [op |-> op, conn |-> c, was |-> was, msg |-> p, sent |-> out, bcasts |-> bcasts]
NoObservation == Observation("none", 0, "NONE", NoPayload, NoSends, <<>>)
Obs(op, c, p, out, bcasts) ==
  IF observe
  THEN Observation(op, c, IF c \in Conn THEN sock[c] ELSE "NONE", p, out, bcasts)
  ELSE NoObservation

\* ------------------------------------------------------------------ Init
InitWith(obs) ==
  /\ wssClients = {}
  /\ clients = <<>>
  /\ sock = [c \in Conn |-> "NONE"]
  /\ now = 0
  /\ pending = 0
  /\ phase = "running"
  /\ observe = obs
  /\ last = NoObservation

\* --------------------------------------------------------------- actions
\* wss.on('connection'), lines 112-133.  The library has added the socket to
\* wss.clients before it emits the event.
Accept(c) ==
  /\ phase = "running"
  /\ sock[c] = "NONE"
  /\ wssClients' = wssClients \cup {c}
  /\ sock' = [sock EXCEPT ![c] = "OPEN"]
  /\ clients' = [d \in DOMAIN clients \cup {c} |->
                   IF d = c THEN [type |-> "unknown", device_id |-> Null, lastPing |-> now]
                   ELSE clients[d]]
  /\ last' = Obs("connection", c, NoPayload, WsSend(NoSends, c, WelcomeEv, sock'), <<>>)
  /\ UNCHANGED <<now, pending, phase, observe>>

\* ws.on('message').  Frames are read while the socket is OPEN or CLOSING.
Message(c, p) ==
  /\ phase # "exited"
  /\ sock[c] \in {"OPEN", "CLOSING"}
  /\ LET r == HandleMessage(c, p, clients, wssClients, sock, now) IN
       /\ r.timer => pending < MaxPending
       /\ clients' = r.cl
       /\ pending' = IF r.timer THEN pending + 1 ELSE pending
       /\ last' = Obs("message", c, p, r.out, r.bcasts)
  /\ UNCHANGED <<wssClients, sock, now, phase, observe>>

\* (Faulty variant: a pong of a socket without record makes one.)
PongUpdateCreates(cl, c, t) ==
  [d \in DOMAIN cl \cup {c} |->
     IF d = c
     THEN [type |-> IF c \in DOMAIN cl THEN cl[c].type ELSE "unknown",
           device_id |-> IF c \in DOMAIN cl THEN cl[c].device_id ELSE Null,
           lastPing |-> t]
     ELSE cl[d]]
\* Lines 286-289: `if (clientData) clientData.lastPing = Date.now()`
PongUpdate(cl, c, t) ==
  IF c \in DOMAIN cl THEN [cl EXCEPT ![c].lastPing = t] ELSE cl

\* ws.on('pong'), lines 285-290.
Pong(c) ==
  /\ phase # "exited"
  /\ sock[c] \in {"OPEN", "CLOSING"}
  /\ clients' = PongUpdate(clients, c, now)
  /\ last' = Obs("pong", c, NoPayload, NoSends, <<>>)
  /\ UNCHANGED <<wssClients, sock, now, pending, phase, observe>>

\* The message handler and the pong handler run for a socket whose close
\* handler has already run (the handle is free): clients.get(ws) finds no
\* record and send() on the closed socket delivers nothing.
LateMessage(c, p) ==
  /\ phase # "exited"
  /\ sock[c] = "NONE"
  /\ LET r == HandleMessage(c, p, clients, wssClients, sock, now) IN
       /\ r.timer => pending < MaxPending
       /\ clients' = r.cl
       /\ pending' = IF r.timer THEN pending + 1 ELSE pending
       /\ last' = Obs("late_message", c, p, r.out, r.bcasts)
  /\ UNCHANGED <<wssClients, sock, now, phase, observe>>

LatePong(c) ==
  /\ phase # "exited"
  /\ sock[c] = "NONE"
  /\ clients' = PongUpdate(clients, c, now)
  /\ last' = Obs("late_pong", c, NoPayload, NoSends, <<>>)
  /\ UNCHANGED <<wssClients, sock, now, pending, phase, observe>>

\* (Faulty variant: the record is left behind.)
DeleteKeepRecord(cl, c) == cl
\* The registry without c: clients.delete(ws), line 277.
Delete(cl, c) == [d \in DOMAIN cl \ {c} |-> cl[d]]

\* `clientData?.type === 'esp32'`, line 269.
\* (Faulty variant: any registered connection's departure is announced.)
DepartingIsAnyRole(cl, c) == c \in DOMAIN cl
DepartingIsDevice(cl, c) == c \in DOMAIN cl /\ cl[c].type = "esp32"

\* The 'close' event of a socket, emitted once, whatever ended it (the peer,
\* terminate(), close() after shutdown, a transport error).  The library's own
\* listener, registered first, removes the socket from wss.clients; then
\* ws.on('close'), lines 261-278, runs with readyState CLOSED.
Close(c) ==
  /\ phase # "exited"
  /\ sock[c] # "NONE"
  /\ wssClients' = wssClients \ {c}
  /\ sock' = [sock EXCEPT ![c] = "NONE"]
  /\ LET isDevice == DepartingIsDevice(clients, c)
         b == IF isDevice
              THEN broadcastToWeb(StatusEv("disconnected", clients[c].device_id),
                                  wssClients', clients, sock', NoSends)
              ELSE StartLoop(NoSends)
     IN last' = Obs("close", c, NoPayload, b.out,
                    IF isDevice
                    THEN <<Bcast("web", 0, StatusEv("disconnected", clients[c].device_id), b)>>
                    ELSE <<>>)
  /\ clients' = Delete(clients, c)
  /\ UNCHANGED <<now, pending, phase, observe>>

\* The peer or the network path dies; Node has not noticed yet.
TransportBreak(c) ==
  /\ phase # "exited"
  /\ sock[c] = "OPEN"
  /\ sock' = [sock EXCEPT ![c] = "BROKEN"]
  /\ last' = Obs("break", c, NoPayload, NoSends, <<>>)
  /\ UNCHANGED <<wssClients, clients, now, pending, phase, observe>>

\* The registry after the body of ws.on('error'), lines 280-282: a log line.
\* (Faulty variant: the handler removes the record.)
OnErrorDeletes(cl, c) == Delete(cl, c)
OnError(cl, c) == cl

\* ws.on('error'), lines 280-282: the handler only logs.  The library has set
\* readyState to CLOSING and destroyed the socket; 'close' follows.
Error(c) ==
  /\ phase # "exited"
  /\ sock[c] \in {"OPEN", "BROKEN", "CLOSING"}
  /\ sock' = [sock EXCEPT ![c] = "DESTROYED"]
  /\ clients' = OnError(clients, c)
  /\ last' = Obs("error", c, NoPayload, NoSends, <<>>)
  /\ UNCHANGED <<wssClients, now, pending, phase, observe>>

\* The 'close' event the library emits for a socket it has destroyed.
CloseDestroyed(c) == sock[c] = "DESTROYED" /\ Close(c)

\* The 30 s interval, lines 343-349: a transport ping to every OPEN socket.
HeartbeatSweep ==
  /\ phase # "exited"
  /\ last' = Obs("heartbeat", 0, NoPayload, NoSends, <<>>)
  /\ UNCHANGED <<wssClients, clients, sock, now, pending, phase, observe>>

\* (Faulty variant: an age equal to the threshold counts as stale.)
IsStaleAtThreshold(data, t) == t - data.lastPing >= StaleMs
\* (Faulty variant: the operands of the subtraction swapped.)
IsStaleSwapped(data, t) == data.lastPing - t > StaleMs
\* `now - data.lastPing > 120000`, line 355.
IsStale(data, t) == t - data.lastPing > StaleMs

\* ws.terminate(): nothing on a CLOSED socket, else readyState CLOSING and the
\* socket destroyed.
Terminate(s) == IF s = "NONE" THEN s ELSE "DESTROYED"

\* The 60 s interval, lines 352-360.
EvictionSweep ==
  /\ phase # "exited"
  /\ sock' = [c \in Conn |->
                IF c \in DOMAIN clients /\ IsStale(clients[c], now)
                THEN Terminate(sock[c]) ELSE sock[c]]
  /\ last' = Obs("eviction", 0, NoPayload, NoSends, <<>>)
  /\ UNCHANGED <<wssClients, clients, now, pending, phase, observe>>

\* Time passes.
Tick ==
  /\ phase # "exited"
  /\ now + StaleMs <= MaxTime * StaleMs
  /\ now' = now + StaleMs
  /\ last' = Obs("tick", 0, NoPayload, NoSends, <<>>)
  /\ UNCHANGED <<wssClients, clients, sock, pending, phase, observe>>

\* The setTimeout callback of a payment_request, lines 208-239.  `success` is
\* the authorization outcome: line 209 is a stub that sets it to true in place
\* of the payment decision, which is outside the server; both outcomes of
\* that decision are modelled, each with the branch the code gives it.
PaymentComplete(success) ==
  /\ phase # "exited"
  /\ pending > 0
  /\ pending' = pending - 1
  /\ IF success
     THEN LET b1 == broadcastToESP32(PaymentSuccessEv, wssClients, clients, sock, NoSends)
              b2 == broadcastToWeb(PaymentSuccessEv, wssClients, clients, sock, b1.out)
          IN last' = Obs("payment_success", 0, NoPayload, b2.out,
                         <<Bcast("esp32", 0, PaymentSuccessEv, b1),
                           Bcast("web", 0, PaymentSuccessEv, b2)>>)
     ELSE LET b1 == broadcastToESP32(PaymentFailedEv, wssClients, clients, sock, NoSends)
          IN last' = Obs("payment_failed", 0, NoPayload, b1.out, <<Bcast("esp32", 0, PaymentFailedEv, b1)>>)
  /\ UNCHANGED <<wssClients, clients, sock, now, phase, observe>>

\* shutdown(), lines 379-396: client.close(1000, ...) on every socket of
\* wss.clients, then server.close() and the 10 s forced-exit timer.
CloseFrame(s) == IF s \in {"OPEN", "BROKEN"} THEN "CLOSING" ELSE s

Shutdown ==
  /\ phase # "exited"
  /\ sock' = [c \in Conn |-> IF c \in wssClients THEN CloseFrame(sock[c]) ELSE sock[c]]
  /\ phase' = "stopping"
  /\ last' = Obs("shutdown", 0, NoPayload, NoSends, <<>>)
  /\ UNCHANGED <<wssClients, clients, now, pending, observe>>

\* The listener has drained: server.close() was called and no accepted socket
\* is left, so the http server emits 'close' and the callback of line 386 runs.
Drained == phase = "stopping" /\ wssClients = {}

\* A forced-exit timer (lines 392-395) is pending: every shutdown() call sets
\* one and nothing clears it.
\* (Faulty variant: the timer is never set.)
ForcedExitNeverArmed == FALSE
ForcedExitArmed == phase = "stopping"

\* process.exit(0) in the server.close callback, lines 386-389.
ExitDrained ==
  /\ Drained
  /\ phase' = "exited"
  /\ last' = Obs("exit_drained", 0, NoPayload, NoSends, <<>>)
  /\ UNCHANGED <<wssClients, clients, sock, now, pending, observe>>

\* process.exit(1) when a forced-exit timer fires, lines 392-395.
ExitForced ==
  /\ ForcedExitArmed
  /\ phase' = "exited"
  /\ last' = Obs("exit_forced", 0, NoPayload, NoSends, <<>>)
  /\ UNCHANGED <<wssClients, clients, sock, now, pending, observe>>

\* ------------------------------------------------------- specifications
\* Payload sets of the specifications.
Msg(t) == Payload("object", t, Undefined)
MsgWith(t, d) == Payload("object", t, d)
MsgExtra(t, d) == [Payload("object", t, d) EXCEPT !.extra = "x"]
LifePayloads == {Msg("esp32_connected"), Msg("web_connected"), Msg("payment_request"), BadJson}
RoutePayloads == {Msg(t) : t \in MsgTypes} \cup {BadJson, NullJson}
AnnouncePayloads ==
  {MsgWith("esp32_connected", d) : d \in DevIds \cup {Undefined}}
    \cup {Msg(t) : t \in MsgTypes} \cup {BadJson}
EvictPayloads == {Msg("esp32_connected"), Msg("web_connected")}
FailPayloads == {Msg("esp32_connected"), Msg("web_connected"), Msg("rfid_scan"),
                 Msg("payment_request"), Msg("custom")}

\* The whole life of the server: every handler, time, shutdown.
Init == InitWith(FALSE)

Next ==
  \/ \E c \in TimedConn : Accept(c)
  \/ \E c \in TimedConn : \E p \in LifePayloads : Message(c, p)
  \/ \E c \in TimedConn : Pong(c)
  \/ \E c \in TimedConn : Close(c)
  \/ \E c \in TimedConn : TransportBreak(c)
  \/ \E c \in TimedConn : Error(c)
  \/ HeartbeatSweep
  \/ EvictionSweep
  \/ Tick
  \/ \E success \in BOOLEAN : PaymentComplete(success)
  \/ Shutdown
  \/ ExitDrained
  \/ ExitForced

Spec == Init /\ [][Next]_vars

\* Message routing, observed: what each handler run sends and to whom.
InitObserved == InitWith(TRUE)

NextRoute ==
  \/ \E c \in Conn : Accept(c)
  \/ \E c \in Conn : \E p \in RoutePayloads : Message(c, p)
  \/ \E c \in Conn : Close(c)
  \/ \E c \in Conn : Error(c)
  \/ \E success \in BOOLEAN : PaymentComplete(success)

SpecRoute == InitObserved /\ [][NextRoute]_vars

\* Announces with and without device ids, among every other message type.
NextAnnounce ==
  \/ \E c \in TimedConn : Accept(c)
  \/ \E c \in TimedConn : \E p \in AnnouncePayloads : Message(c, p)
  \/ \E c \in TimedConn : Close(c)

SpecAnnounce == InitObserved /\ [][NextAnnounce]_vars

\* Liveness tracking and eviction, observed.
NextEvict ==
  \/ \E c \in TimedConn : Accept(c)
  \/ \E c \in TimedConn : \E p \in EvictPayloads : Message(c, p)
  \/ \E c \in TimedConn : Pong(c)
  \/ \E c \in TimedConn : Close(c)
  \/ HeartbeatSweep
  \/ EvictionSweep
  \/ Tick

SpecEvict == InitObserved /\ [][NextEvict]_vars

\* Broadcasts with targets whose transport has failed unnoticed.
NextFail ==
  \/ \E c \in Conn : Accept(c)
  \/ \E c \in Conn : \E p \in FailPayloads : Message(c, p)
  \/ \E c \in Conn : TransportBreak(c)
  \/ \E c \in Conn : Close(c)
  \/ \E success \in BOOLEAN : PaymentComplete(success)

SpecFail == InitObserved /\ [][NextFail]_vars

\* The fallback relay, observed: unknown types, objects without a type, text
\* that does not parse, with and without fields the server does not read.
RelayPayloads ==
  {Msg("esp32_connected"), Msg("web_connected"), MsgExtra("custom", Undefined),
   MsgExtra(Undefined, Undefined), BadJson}

NextRelay ==
  \/ \E c \in Conn : Accept(c)
  \/ \E c \in Conn : \E p \in RelayPayloads : Message(c, p)
  \/ \E c \in Conn : Close(c)
  \/ \E c \in Conn : Error(c)

SpecRelay == InitObserved /\ [][NextRelay]_vars

\* What refreshes lastPing, observed: messages that parse and that do not,
\* pongs, both sweeps, as time passes.
LivenessPayloads == {Msg("web_connected"), Msg("custom"), BadJson, NullJson}

NextLiveness ==
  \/ \E c \in TimedConn : Accept(c)
  \/ \E c \in TimedConn : \E p \in LivenessPayloads : Message(c, p)
  \/ \E c \in TimedConn : Pong(c)
  \/ \E c \in TimedConn : Close(c)
  \/ HeartbeatSweep
  \/ EvictionSweep
  \/ Tick

SpecLiveness == InitObserved /\ [][NextLiveness]_vars

\* Transport errors, observed.  The library emits 'close' for a socket it has
\* destroyed: that close is weakly fair.  Nothing makes a healthy peer close.
ErrorPayloads == {Msg("esp32_connected"), Msg("web_connected")}

NextError ==
  \/ \E c \in TimedConn : Accept(c)
  \/ \E c \in TimedConn : \E p \in ErrorPayloads : Message(c, p)
  \/ \E c \in TimedConn : TransportBreak(c)
  \/ \E c \in TimedConn : Error(c)
  \/ \E c \in TimedConn : Close(c)

SpecError ==
  InitObserved /\ [][NextError]_vars /\ \A c \in TimedConn : WF_vars(CloseDestroyed(c))

\* Events that arrive after a record is gone, observed: late messages and
\* pongs, sweeps, the completion of a payment whose requester has closed.
LatePayloads == {Msg("web_connected"), Msg("payment_request"), BadJson}

NextLate ==
  \/ \E c \in TimedConn : Accept(c)
  \/ \E c \in TimedConn : \E p \in LatePayloads : Message(c, p)
  \/ \E c \in TimedConn : \E p \in LatePayloads : LateMessage(c, p)
  \/ \E c \in TimedConn : LatePong(c)
  \/ \E c \in TimedConn : Close(c)
  \/ HeartbeatSweep
  \/ EvictionSweep
  \/ Tick
  \/ \E success \in BOOLEAN : PaymentComplete(success)

SpecLate == InitObserved /\ [][NextLate]_vars

\* Every way a connection ends, observed: the peer closes, a sweep evicts it,
\* shutdown() closes it.
ClosePayloads == {Msg("esp32_connected"), Msg("web_connected")}

NextClose ==
  \/ \E c \in TimedConn : Accept(c)
  \/ \E c \in TimedConn : \E p \in ClosePayloads : Message(c, p)
  \/ \E c \in TimedConn : Close(c)
  \/ EvictionSweep
  \/ Tick
  \/ Shutdown

SpecClose == InitObserved /\ [][NextClose]_vars

\* Shutdown, observed.  Node fires a timer that has been set and emits the
\* server's 'close' once it has drained: both exits are weakly fair.  Nothing
\* makes a peer complete its close.
ShutdownPayloads == {Msg("esp32_connected"), Msg("web_connected"), Msg("rfid_scan")}

NextShutdown ==
  \/ \E c \in TimedConn : Accept(c)
  \/ \E c \in TimedConn : \E p \in ShutdownPayloads : Message(c, p)
  \/ \E c \in TimedConn : TransportBreak(c)
  \/ \E c \in TimedConn : Close(c)
  \/ Shutdown
  \/ ExitDrained
  \/ ExitForced

SpecShutdown ==
  InitObserved /\ [][NextShutdown]_vars /\ WF_vars(ExitDrained) /\ WF_vars(ExitForced)

\* ---------------------------------------------------------------- claims
Count(seq, ev) == Cardinality({i \in DOMAIN seq : seq[i] = ev})
StatusCount(seq, status) ==
  Cardinality({i \in DOMAIN seq : seq[i].type = "esp32_status" /\ seq[i].status = status})
OpenWithRole(role) ==
  {c \in wssClients : ReadyState(sock[c]) = 1 /\ c \in DOMAIN clients /\ clients[c].type = role}
Malformed(p) == p.json \in {"invalid", "null"}
IsMessage(type) == last.op = "message" /\ last.msg.json = "object" /\ last.msg.type = type

\* C1: in every reachable state the connections that have a record in the
\* `clients` map are exactly the connections in wss.clients.
RegistryMatchesLiveSet == DOMAIN clients = wssClients

\* A state after an accept, a role announce, a termination and a shutdown
\* call, with one connection gone and one still awaiting its close event.
RegistryWitness ==
  /\ phase = "stopping"
  /\ wssClients = {2}
  /\ sock[2] = "DESTROYED"
  /\ clients[2].type = "web"
  /\ now > 0

AnnounceReachesEveryControlClient ==
  IsMessage("esp32_connected") =>
    \A c \in DOMAIN clients :
      /\ clients[c].type = "web" => StatusCount(last.sent[c], "connected") = 1
      /\ clients[c].type = "esp32" => StatusCount(last.sent[c], "connected") = 0

\* C3, amended: the announce sends exactly one connected-status event to each
\* control_client that is open when it is handled and none to any other
\* connection; no other handler run (the scan_event included) sends a
\* connected-status event; a scan_device never receives a status event.
AnnounceReachesOpenControlClients ==
  /\ \A c \in Conn :
       StatusCount(last.sent[c], "connected") =
         IF IsMessage("esp32_connected") /\ c \in OpenWithRole("web") THEN 1 ELSE 0
  /\ \A c \in DOMAIN clients :
       clients[c].type = "esp32" =>
         \A i \in DOMAIN last.sent[c] : last.sent[c][i].type # "esp32_status"

AnnounceWitness ==
  /\ IsMessage("esp32_connected")
  /\ \E w \in OpenWithRole("web") : StatusCount(last.sent[w], "connected") = 1
  /\ \E d \in OpenWithRole("esp32") \ {last.conn} : last.sent[d] = <<>>

\* C4: an eviction sweep terminates every scan_device whose lastPing is older
\* than the threshold; from then on until its close event nothing touches the
\* record and no sweep sends anything; the close event removes the record and
\* sends exactly one disconnect-status event to each open control_client and
\* none to anyone else.
EvictionDisconnectsStaleDevice ==
  [][/\ last'.op = "eviction" =>
          /\ \A c \in DOMAIN clients :
               (clients[c].type = "esp32" /\ now - clients[c].lastPing > StaleMs)
                  => sock'[c] = "DESTROYED"
          /\ clients' = clients
          /\ last'.sent = NoSends
     /\ \A c \in Conn :
          sock[c] = "DESTROYED" =>
            /\ sock'[c] \in {"DESTROYED", "NONE"}
            /\ c \in DOMAIN clients' => clients'[c] = clients[c]
            /\ sock'[c] = "NONE" => (last'.op = "close" /\ last'.conn = c)
     /\ \A c \in Conn :
          (last'.op = "close" /\ last'.conn = c /\ sock[c] = "DESTROYED"
             /\ c \in DOMAIN clients /\ clients[c].type = "esp32")
            => /\ c \notin DOMAIN clients'
               /\ \A d \in Conn :
                    StatusCount(last'.sent[d], "disconnected") =
                      IF d # c /\ d \in OpenWithRole("web") THEN 1 ELSE 0]_vars

\* The close event of an evicted scan_device (in SpecEvict only a sweep
\* destroys a socket), with an open control_client notified once.
EvictionWitness ==
  /\ last.op = "close" /\ last.was = "DESTROYED"
  /\ Len(last.bcasts) = 1 /\ last.bcasts[1].count = 1
  /\ \E w \in OpenWithRole("web") : StatusCount(last.sent[w], "disconnected") = 1
  /\ last.conn \notin DOMAIN clients

Targets(b) ==
  {c \in wssClients :
     /\ ReadyState(sock[c]) = 1
     /\ c # b.sender
     /\ b.fn = "all" \/ (c \in DOMAIN clients /\ clients[c].type = b.fn)}
BcastsOfLast == {last.bcasts[i] : i \in DOMAIN last.bcasts}

\* C6: each broadcast call returns the number of open connections matching its
\* filter (the excluded sender left out), sends to exactly those, once each,
\* and to no other connection.
BroadcastCountMatchesTargets ==
  \A b \in BcastsOfLast :
    /\ b.count = Cardinality(Targets(b))
    /\ Len(b.to) = b.count
    /\ {b.to[i] : i \in DOMAIN b.to} = Targets(b)
    /\ \A c \in Conn :
         Count(last.sent[c], b.ev) =
           Cardinality({j \in DOMAIN last.bcasts :
                          last.bcasts[j].ev = b.ev /\ c \in Targets(last.bcasts[j])})

\* A fallback broadcast that reaches one open connection, skips the sender and
\* skips a connection that is no longer open.
BroadcastWitness ==
  /\ IsMessage("custom")
  /\ last.bcasts[1].count = 1
  /\ wssClients = Conn
  /\ \E c \in Conn \ {last.conn} : sock[c] = "DESTROYED" /\ last.sent[c] = <<>>
  /\ last.sent[last.conn] = <<>>

\* C7: a record is created with role unknown, and a role that is not unknown
\* never becomes unknown while the record exists.
RoleNeverRevertsToUnknown ==
  [][\A c \in Conn :
       /\ (c \in DOMAIN clients /\ c \in DOMAIN clients' /\ clients[c].type # "unknown")
            => clients'[c].type # "unknown"
       /\ (c \notin DOMAIN clients /\ c \in DOMAIN clients')
            => clients'[c].type = "unknown"]_vars

\* A record that has a role, has been refreshed later, and has since been
\* through the time after which sweeps look at it.
RoleWitness ==
  \E c \in DOMAIN clients :
    /\ clients[c].type = "esp32"
    /\ clients[c].lastPing = StaleMs
    /\ now = 2 * StaleMs
    /\ pending = 1

\* C8 as stated: once a record has a role, no step changes it.
RoleIsTerminal ==
  [][\A c \in Conn :
       (c \in DOMAIN clients /\ c \in DOMAIN clients' /\ clients[c].type # "unknown")
         => clients'[c].type = clients[c].type]_vars

\* C8, amended: a record's role changes only in the handling of an announce
\* from that connection, and every announce leaves the role it names, also
\* when the record already had the other role.
RoleFollowsLatestAnnounce ==
  [][\A c \in Conn :
       (c \in DOMAIN clients /\ c \in DOMAIN clients') =>
         /\ clients'[c].type # clients[c].type
              => (last'.op = "message" /\ last'.conn = c /\ last'.msg.json = "object"
                    /\ last'.msg.type \in {"esp32_connected", "web_connected"})
         /\ (last'.op = "message" /\ last'.conn = c /\ last'.msg.json = "object")
              => /\ last'.msg.type = "esp32_connected" => clients'[c].type = "esp32"
                 /\ last'.msg.type = "web_connected" => clients'[c].type = "web"]_vars

\* A scan_device that has just announced itself as a control client.
RoleSwitchWitness ==
  /\ IsMessage("web_connected")
  /\ clients[last.conn].type = "web"
  /\ clients[last.conn].device_id = "D1"

ShutdownClosesAllAndTerminates ==
  /\ [][/\ last'.op = "shutdown" =>
             \A c \in Conn :
               IF c \in wssClients /\ ReadyState(sock[c]) = 1
               THEN sock'[c] = "CLOSING" ELSE sock'[c] = sock[c]
        /\ phase' = "exited" => phase \in {"stopping", "exited"}
        /\ (last'.op = "exit_drained" /\ phase = "stopping") => wssClients = {}]_vars
  /\ (phase = "stopping") ~> (phase = "exited")

\* A forced exit with a socket whose peer never completed the close.
ShutdownWitness ==
  /\ phase = "exited" /\ last.op = "exit_forced"
  /\ \E c \in wssClients : sock[c] = "CLOSING" /\ clients[c].type = "esp32"

\* C12: the close event of a connection removes its record, whatever ended
\* the connection; if its role was scan_device every open control_client is
\* sent one disconnect-status event and nobody else anything; if its role was
\* control_client or unknown nothing is sent to anyone.
CloseNotifiesIffDevice ==
  [][\A c \in Conn :
       (last'.op = "close" /\ last'.conn = c /\ c \in DOMAIN clients)
         => /\ c \notin DOMAIN clients'
            /\ \A d \in DOMAIN clients \ {c} : clients'[d] = clients[d]
            /\ \A d \in Conn :
                 last'.sent[d] =
                   IF clients[c].type = "esp32" /\ d # c /\ d \in OpenWithRole("web")
                   THEN <<StatusEv("disconnected", clients[c].device_id)>>
                   ELSE <<>>]_vars

\* A control client that closed after shutdown() while a scan_device was
\* still registered: nothing was sent.
CloseWitness ==
  /\ last.op = "close" /\ last.was = "CLOSING" /\ phase = "stopping"
  /\ last.bcasts = <<>> /\ last.sent = NoSends
  /\ \E d \in DOMAIN clients : clients[d].type = "esp32"
  /\ now > 0

\* The five types the switch of the message handler has a case for.
KnownTypes == {"esp32_connected", "web_connected", "rfid_scan", "payment_request", "ping"}
\* The object a payload parses to.
ParsedOf(p) == JSONParse(p).value
OpenOthers(c) == {d \in wssClients \ {c} : ReadyState(sock[d]) = 1}

\* C13: a message that parses and whose type is none of the five known types
\* is sent once, with the fields it arrived with and no other, to every other
\* open connection whatever its role, and nothing is sent to the sender or to
\* a connection that is not open.
UnknownTypeIsRelayedUnchanged ==
  \A c \in Conn :
    (last.op = "message" /\ last.conn = c /\ last.msg.json = "object"
       /\ last.msg.type \notin KnownTypes \cup {Undefined})
      => \A d \in Conn :
           last.sent[d] = IF d \in OpenOthers(c) THEN <<ParsedOf(last.msg)>> ELSE <<>>

\* A custom event with an unread field relayed to an open scan_device and an
\* open connection without role, past a control client that is not open.
RelayWitness ==
  /\ last.op = "message" /\ last.msg = MsgExtra("custom", Undefined)
  /\ \E d \in OpenOthers(last.conn) : clients[d].type = "esp32"
  /\ \E d \in wssClients \ {last.conn} : sock[d] = "DESTROYED" /\ clients[d].type = "web"
  /\ last.sent[last.conn] = <<>>

\* C14: a payload that does not parse to an event with a `type` field (text
\* that is not JSON, `null`, an object without `type`) is not propagated:
\* handling it sends nothing to any connection other than its sender.
UntypedIsNeverPropagated ==
  \A c \in Conn :
    (last.op = "message" /\ last.conn = c
       /\ (Malformed(last.msg) \/ last.msg.type = Undefined))
      => \A d \in Conn \ {c} : last.sent[d] = <<>>

\* The handler run just made is the message handler or the pong handler of c.
HeardFrom(c) == last'.conn = c /\ last'.op \in {"message", "pong"}
HeardValidFrom(c) ==
  /\ last'.conn = c
  /\ \/ last'.op = "pong"
     \/ last'.op = "message" /\ ~Malformed(last'.msg)

\* C15 as stated: the lastPing of a record is set to the current time by
\* every inbound message and every pong of its connection, and no other step
\* changes it.
LivenessSetByEveryMessage ==
  [][\A c \in DOMAIN clients \cap DOMAIN clients' :
       clients'[c].lastPing = IF HeardFrom(c) THEN now ELSE clients[c].lastPing]_vars

\* C15, amended: the lastPing of a record is set to the current time by every
\* inbound message of its connection that parses to a non-null value and by
\* every pong; a message that does not parse, the sweeps and every
\* other step on a registered connection leave it unchanged.
LivenessSetByParsedMessageOrPong ==
  [][\A c \in DOMAIN clients \cap DOMAIN clients' :
       clients'[c].lastPing = IF HeardValidFrom(c) THEN now ELSE clients[c].lastPing]_vars

\* A connection whose lastPing is older than the clock right after it sent
\* text that is not JSON, beside one refreshed at the current time.
LivenessWitness ==
  /\ last.op = "message" /\ last.msg = BadJson
  /\ last.conn \in DOMAIN clients /\ clients[last.conn].lastPing < now
  /\ \E d \in DOMAIN clients \ {last.conn} : clients[d].lastPing = now

\* C16 as stated: once the error event of a connection has been handled the
\* record of the connection is gone.
ErrorRemovesRecord ==
  last.op = "error" => last.conn \notin DOMAIN clients

\* C16, amended: the error handler leaves the registry as it is and sends
\* nothing; the record of a connection whose socket the error destroyed stays
\* until the close event that follows, which removes it and, if the role was
\* scan_device, sends every open control client one disconnect-status event.
ErrorIsClosedByFollowingClose ==
  /\ [][\A c \in Conn :
          /\ (last'.op = "error" /\ last'.conn = c)
               => clients' = clients /\ wssClients' = wssClients /\ last'.sent = NoSends
          /\ (last'.op = "close" /\ last'.conn = c /\ last'.was = "DESTROYED"
                /\ c \in DOMAIN clients)
               => /\ c \notin DOMAIN clients'
                  /\ \A d \in Conn :
                       StatusCount(last'.sent[d], "disconnected") =
                         IF clients[c].type = "esp32" /\ d \in OpenWithRole("web") \ {c}
                         THEN 1 ELSE 0]_vars
  /\ \A c \in Conn : (sock[c] = "DESTROYED") ~> (c \notin DOMAIN clients)

\* The error event of a scan_device has been handled, its record is still in
\* the registry and a control client is open.
ErrorWitness ==
  /\ last.op = "error" /\ sock[last.conn] = "DESTROYED"
  /\ last.conn \in DOMAIN clients /\ clients[last.conn].type = "esp32"
  /\ OpenWithRole("web") # {}

\* Age of the record of c at the current time.
Age(c) == now - clients[c].lastPing

\* The handler run before this step was the message handler or the pong
\* handler of c: c was heard from at the current time.
JustHeardFrom(c) == last.conn = c /\ last.op \in {"message", "pong"}
JustHeardValidFrom(c) ==
  /\ last.conn = c
  /\ \/ last.op = "pong"
     \/ last.op = "message" /\ ~Malformed(last.msg)

\* C17 as stated: an eviction sweep leaves alone a connection that has just
\* sent a message or a pong.
EvictionSparesRecentSender ==
  [][last'.op = "eviction" =>
       \A c \in Conn : JustHeardFrom(c) => sock'[c] = sock[c]]_vars

\* C17, amended: an eviction sweep terminates every registered connection
\* whose lastPing is more than the threshold before the time of the sweep, and
\* no other: an age up to and including the threshold keeps the socket as it
\* was, and so does a pong or a message that parses to a non-null value just
\* before the sweep.
EvictionTerminatesExactlyStale ==
  [][last'.op = "eviction" =>
       \A c \in Conn :
         /\ sock'[c] = IF c \in DOMAIN clients /\ Age(c) > StaleMs
                       THEN "DESTROYED" ELSE sock[c]
         /\ JustHeardValidFrom(c) => sock'[c] = sock[c]]_vars

\* After a sweep: a connection whose age is exactly the threshold is still
\* open, one twice as old is terminated.
EvictionSweepWitness ==
  /\ last.op = "eviction"
  /\ \E c \in DOMAIN clients : Age(c) = StaleMs /\ sock[c] = "OPEN"
  /\ \E d \in DOMAIN clients : Age(d) = 2 * StaleMs /\ sock[d] = "DESTROYED"

\* C18: a record is made only by the connection handler, for the socket it
\* accepts: a message or a pong that arrives for a socket whose record has
\* been removed, a sweep and the completion of a payment leave the set of
\* records as it is, so a removed record never comes back.
RemovedRecordStaysRemoved ==
  [][/\ \A c \in Conn :
          (c \notin DOMAIN clients /\ c \in DOMAIN clients')
            => last'.op = "connection" /\ last'.conn = c
     /\ last'.op \in {"late_message", "late_pong", "heartbeat", "eviction",
                      "payment_success", "payment_failed"}
          => DOMAIN clients' = DOMAIN clients]_vars

\* A role announce has just been handled for a socket
\* whose record is gone, while a payment is pending and another connection is
\* registered.
LateEventWitness ==
  /\ last.op = "late_message" /\ last.msg = Msg("web_connected")
  /\ last.was = "NONE" /\ last.conn \notin DOMAIN clients
  /\ pending > 0 /\ now > 0
  /\ DOMAIN clients # {}

ScanCopies(d) == Count(last.sent[d], ScanEv(last.msg.device_id))

\* C20 as stated: an rfid_scan from a connection of any role is sent to every
\* control client, and a control client that sends one receives the scan
\* event and then the receipt.
ScanReachesEveryControlClient ==
  IsMessage("rfid_scan") =>
    /\ \A d \in DOMAIN clients : clients[d].type = "web" => ScanCopies(d) = 1
    /\ clients[last.conn].type = "web"
         => last.sent[last.conn] = <<ScanEv(last.msg.device_id), ScanReceivedEv>>

\* C20, amended: an rfid_scan from a connection of any role is sent once to
\* every open control client, the sender included if it is one, and to no
\* other connection; the open sender is then sent the receipt, so a sending
\* control client receives the scan event followed by the receipt, and a
\* control client that is registered but no longer open receives nothing.
ScanReachesOpenControlClients ==
  IsMessage("rfid_scan") =>
    \A d \in Conn :
      last.sent[d] =
        (IF d \in OpenWithRole("web") THEN <<ScanEv(last.msg.device_id)>> ELSE <<>>)
          \o (IF d = last.conn /\ ReadyState(sock[d]) = 1
              THEN <<ScanReceivedEv>> ELSE <<>>)

\* A control client has sent an rfid_scan and received the scan event and the
\* receipt; a second control client is open, a third is not.
ScanWitness ==
  /\ IsMessage("rfid_scan")
  /\ clients[last.conn].type = "web"
  /\ last.sent[last.conn] = <<ScanEv(last.msg.device_id), ScanReceivedEv>>
  /\ OpenWithRole("web") \ {last.conn} # {}
  /\ \E d \in wssClients : sock[d] = "DESTROYED" /\ clients[d].type = "web"

====
